---------------------------- MODULE Spec2Model ----------------------------
(***************************************************************************)
(* Model of src/lib/walletApi.js: a client-side gateway that forwards      *)
(* wallet and payment-settings operations to a remote backend.             *)
(*                                                                         *)
(* Every exported function is an async function.  Between two awaits its   *)
(* code runs without interruption; at an await it is suspended until the   *)
(* backend answers.  A call is therefore modelled by its position (pc),    *)
(* the locals that live across the await, the requests and responses it    *)
(* has exchanged so far (trace), what it has written to the console (log)  *)
(* and how it ended (result).  The backend answers one pending request at  *)
(* a time; calls of different callers interleave at their awaits.          *)
(***************************************************************************)
EXTENDS Integers, Sequences, FiniteSets, TLC

VARIABLES
    pc,      \* caller -> "idle" | "rpc" | "fallback" | "read" | "write" | "done"
    op,      \* caller -> name of the exported function being run ("" when idle)
    args,    \* caller -> the arguments the function was called with
    locals,  \* caller -> the locals of the call that survive its await
    trace,   \* caller -> sequence of request / response events of the call
    log,     \* caller -> sequence of console.error entries of the call
    result,  \* caller -> how the call ended: pending, return(val) or throw(val)
    db       \* the backend's app_settings row: [id, settings]

vars == <<pc, op, args, locals, trace, log, result, db>>

-----------------------------------------------------------------------------
(* Bounds of the model.                                                    *)

MaxRows == 1        \* longest row list a query or procedure returns
MaxLimit == 2       \* largest options.limit / options.offset a caller passes
MaxSectionVal == 2  \* values 1..MaxSectionVal of the non-payment section
NumCallers == 2     \* concurrent callers of the settings operations

-----------------------------------------------------------------------------
(* JavaScript values, tagged by their type.  Throughout the module the     *)
(* fields of a record are written in the order in which TLC keeps them     *)
(* (the order in which the names first occur in the module).               *)

Null == [t |-> "null"]
Undefined == [t |-> "undefined"]
Num(n) == [t |-> "num", v |-> n]
Str(s) == [t |-> "str", v |-> s]
Bool(b) == [t |-> "bool", v |-> b]
Arr(s) == [t |-> "arr", v |-> s]
\* an object: v is a function from property names to values
Obj(f) == [t |-> "obj", v |-> f]
\* an error object (the backend's, or one the runtime throws)
Err(k) == [t |-> "error", v |-> k]

EmptyObj == Obj([k \in {} |-> Null])

\* the TypeError of reading a property of null or undefined
TypeError == Err("TypeError")

\* ToBoolean, as `||` and `if (...)` apply it
Truthy(x) ==
    CASE x.t = "null" -> FALSE
      [] x.t = "undefined" -> FALSE
      [] x.t = "num" -> x.v # 0
      [] x.t = "str" -> x.v # ""
      [] x.t = "bool" -> x.v
      [] OTHER -> TRUE

\* a || b
Or(a, b) == IF Truthy(a) THEN a ELSE b

\* o.k throws when o is null or undefined
ReadThrows(o) == o.t \in {"null", "undefined"}

\* o.k for any other o: undefined when the property is absent
GetProp(o, k) ==
    IF o.t = "obj" /\ k \in DOMAIN o.v THEN o.v[k] ELSE Undefined

\* the own properties { ...o } copies: none for null and undefined
Spread(o) == IF o.t = "obj" THEN o.v ELSE [k \in {} |-> Null]

\* a parameter default: `p = d` takes d only when the argument is undefined
DefaultParam(a, d) == IF a = Undefined THEN d ELSE a

RECURSIVE Digits(_)
Digits(n) ==
    LET d == <<"0", "1", "2", "3", "4", "5", "6", "7", "8", "9">>
    IN IF n < 10 THEN d[n + 1] ELSE Digits(n \div 10) \o d[(n % 10) + 1]

\* `${x}`: the string a template literal makes of x
TemplateString(x) ==
    CASE x.t = "null" -> "null"
      [] x.t = "undefined" -> "undefined"
      [] x.t = "num" -> Digits(x.v)
      [] x.t = "str" -> x.v
      [] x.t = "bool" -> IF x.v THEN "true" ELSE "false"
      [] OTHER -> "[object Object]"

-----------------------------------------------------------------------------
(* Requests to the backend client, and its { data, error } responses.      *)

\* supabase.rpc(fn, params)
RpcReq(fn, params) == [params |-> params, kind |-> "rpc", target |-> fn]

\* supabase.from(table).select(cols)   (.single() when single)
SelectReq(table, cols, single) ==
    [kind |-> "select", target |-> table, cols |-> cols, single |-> single]

\* supabase.from(table).update(values).eq(col, val): the filter is sent as
\* the query parameter col=eq.${val}
UpdateReq(table, values, col, val) ==
    [kind |-> "update", target |-> table, values |-> values,
     col |-> col, filter |-> TemplateString(val)]

Ok(data) == [data |-> data, error |-> Null]
Fail(e) == [data |-> Null, error |-> e]

ReqEv(r) == [ev |-> "req", req |-> r]
RespEv(r) == [ev |-> "resp", resp |-> r]

-----------------------------------------------------------------------------
(* What a stretch of code between two awaits does: suspend on a request,   *)
(* return a value, or throw; each with the console entries it wrote.       *)

NoLocals == [k \in {} |-> Null]

Await(at, req, loc, logs) ==
    [locals |-> loc, req |-> req, at |-> at, logs |-> logs, act |-> "await"]
Return(val) == [val |-> val, logs |-> <<>>, act |-> "return"]

\* console.error(msg, error)
LogEntry(msg, e) == [msg |-> msg, err |-> e]

\* catch (error) { console.error(msg, error); throw error; }
Catch(msg, e) == [val |-> e, logs |-> <<LogEntry(msg, e)>>, act |-> "throw"]

-----------------------------------------------------------------------------
(* Inputs callers pass.                                                    *)

UserIds == {Str("U1")}
WalletIds == {Str("W1")}
VendorIds == {Str("V1")}
DriverIds == {Str("D1")}
Amounts == {Num(50)}
Descriptions == {Undefined, Str("bonus")}

\* the options argument of getWalletTransactions: omitted, or an object with
\* any of limit, offset, type, status
LimitVals == {Undefined} \cup {Num(n) : n \in 0..MaxLimit}
OffsetVals == {Undefined} \cup {Num(n) : n \in 0..MaxLimit}
TypeVals == {Undefined, Str("credit")}
StatusVals == {Undefined, Str("completed")}

OptionsObj(l, o, t, s) ==
    LET given == [limit |-> l, offset |-> o, type |-> t, status |-> s]
        keys == {k \in DOMAIN given : given[k] # Undefined}
    IN Obj([k \in keys |-> given[k]])

OptionsVals ==
    {Undefined} \cup
    {OptionsObj(l, o, t, s) :
        l \in LimitVals, o \in OffsetVals, t \in TypeVals, s \in StatusVals}

-----------------------------------------------------------------------------
(* The exported functions.  X_call is the code of X up to its first await, *)
(* X_resume the code that runs when the awaited response arrives.          *)

getWalletBalance_call(userId) ==
    Await("rpc", RpcReq("get_wallet_balance", Obj([p_user_id |-> userId])),
          NoLocals, <<>>)

getWalletBalance_resume(at, loc, resp) ==
    IF Truthy(resp.error)
    THEN Catch("Error fetching wallet balance:", resp.error)
    ELSE Return(resp.data)

DefaultLimit == 10
DefaultOffset == 0

getWalletTransactions_args(walletId, options) ==
    Obj([p_wallet_id |-> walletId,
         p_limit |-> Or(GetProp(options, "limit"), Num(DefaultLimit)),
         p_offset |-> Or(GetProp(options, "offset"), Num(DefaultOffset)),
         p_type |-> Or(GetProp(options, "type"), Null),
         p_status |-> Or(GetProp(options, "status"), Null)])

getWalletTransactions_call(walletId, optionsArg) ==
    LET options == DefaultParam(optionsArg, EmptyObj)
    IN Await("rpc",
             RpcReq("get_wallet_transactions",
                    getWalletTransactions_args(walletId, options)),
             NoLocals, <<>>)

getWalletTransactions_resume(at, loc, resp) ==
    IF Truthy(resp.error)
    THEN Catch("Error fetching wallet transactions:", resp.error)
    ELSE Return(resp.data)

getVendorWallets_call ==
    Await("rpc", RpcReq("get_all_vendor_wallets", Undefined), NoLocals, <<>>)

\* getVendorWallets falling back whenever the procedure gave no data
getVendorWallets_resume_eagerFallback(at, loc, resp) ==
    IF at = "rpc"
    THEN IF Truthy(resp.error) \/ ~Truthy(resp.data)
         THEN Await("fallback", SelectReq("vendor_wallets", "*", FALSE), NoLocals,
                    <<LogEntry("Error using RPC function:", resp.error)>>)
         ELSE Return(Or(resp.data, Arr(<<>>)))
    ELSE IF Truthy(resp.error)
         THEN Catch("Error fetching vendor wallets:", resp.error)
         ELSE Return(Or(resp.data, Arr(<<>>)))

getVendorWallets_resume(at, loc, resp) ==
    IF at = "rpc"
    THEN IF Truthy(resp.error)
         THEN Await("fallback", SelectReq("vendor_wallets", "*", FALSE), NoLocals,
                    <<LogEntry("Error using RPC function:", resp.error)>>)
         ELSE Return(Or(resp.data, Arr(<<>>)))
    ELSE IF Truthy(resp.error)
         THEN Catch("Error fetching vendor wallets:", resp.error)
         ELSE Return(Or(resp.data, Arr(<<>>)))

getDriverWallets_call ==
    Await("rpc", RpcReq("get_all_driver_wallets", Undefined), NoLocals, <<>>)

\* getDriverWallets returning the fallback's data without `|| []`
getDriverWallets_resume_noDefault(at, loc, resp) ==
    IF at = "rpc"
    THEN IF Truthy(resp.error)
         THEN Await("fallback", SelectReq("driver_wallets", "*", FALSE), NoLocals,
                    <<LogEntry("Error using RPC function:", resp.error)>>)
         ELSE Return(Or(resp.data, Arr(<<>>)))
    ELSE IF Truthy(resp.error)
         THEN Catch("Error fetching driver wallets:", resp.error)
         ELSE Return(resp.data)

getDriverWallets_resume(at, loc, resp) ==
    IF at = "rpc"
    THEN IF Truthy(resp.error)
         THEN Await("fallback", SelectReq("driver_wallets", "*", FALSE), NoLocals,
                    <<LogEntry("Error using RPC function:", resp.error)>>)
         ELSE Return(Or(resp.data, Arr(<<>>)))
    ELSE IF Truthy(resp.error)
         THEN Catch("Error fetching driver wallets:", resp.error)
         ELSE Return(Or(resp.data, Arr(<<>>)))

\* the default of the description parameter (an Arabic literal in the source,
\* "top-up")
DefaultDescription == Str("top-up")

chargeVendorWallet_call(vendorId, amount, descriptionArg) ==
    LET description == DefaultParam(descriptionArg, DefaultDescription)
    IN Await("rpc",
             RpcReq("charge_vendor_wallet",
                    Obj([p_vendor_id |-> vendorId, p_amount |-> amount,
                         p_description |-> description])),
             NoLocals, <<>>)

\* chargeVendorWallet without `if (error) throw error`
chargeVendorWallet_resume_unchecked(at, loc, resp) ==
    Return(resp.data)

chargeVendorWallet_resume(at, loc, resp) ==
    IF Truthy(resp.error)
    THEN Catch("Error charging vendor wallet:", resp.error)
    ELSE Return(resp.data)

chargeDriverWallet_call(driverId, amount, descriptionArg) ==
    LET description == DefaultParam(descriptionArg, DefaultDescription)
    IN Await("rpc",
             RpcReq("charge_driver_wallet",
                    Obj([p_amount |-> amount, p_description |-> description,
                         p_driver_id |-> driverId])),
             NoLocals, <<>>)

chargeDriverWallet_resume(at, loc, resp) ==
    IF Truthy(resp.error)
    THEN Catch("Error charging driver wallet:", resp.error)
    ELSE Return(resp.data)

getFinancialStats_call ==
    Await("rpc", RpcReq("get_financial_summary", Undefined), NoLocals, <<>>)

\* getFinancialStats defaulting its payload as the list functions do
getFinancialStats_resume_defaulted(at, loc, resp) ==
    IF Truthy(resp.error)
    THEN Catch("Error fetching financial stats:", resp.error)
    ELSE Return(Or(resp.data, Arr(<<>>)))

getFinancialStats_resume(at, loc, resp) ==
    IF Truthy(resp.error)
    THEN Catch("Error fetching financial stats:", resp.error)
    ELSE Return(resp.data)

getVendorWallet_call(vendorId) ==
    Await("rpc", RpcReq("get_vendor_wallet", Obj([p_vendor_id |-> vendorId])),
          NoLocals, <<>>)

getVendorWallet_resume(at, loc, resp) ==
    IF Truthy(resp.error)
    THEN Catch("Error fetching vendor wallet:", resp.error)
    ELSE Return(resp.data)

getDriverWallet_call(driverId) ==
    Await("rpc", RpcReq("get_driver_wallet", Obj([p_driver_id |-> driverId])),
          NoLocals, <<>>)

getDriverWallet_resume(at, loc, resp) ==
    IF Truthy(resp.error)
    THEN Catch("Error fetching driver wallet:", resp.error)
    ELSE Return(resp.data)

\* { ...f, k: v }
ObjectWith(f, k, v) ==
    [x \in (DOMAIN f) \cup {k} |-> IF x = k THEN v ELSE f[x]]

getPaymentSettings_call ==
    Await("read", SelectReq("app_settings", "settings", TRUE), NoLocals, <<>>)

getPaymentSettings_resume(at, loc, resp) ==
    LET msg == "Error fetching payment settings:"
        data == resp.data
    IN IF Truthy(resp.error) THEN Catch(msg, resp.error)
       ELSE IF ReadThrows(data) \/ ReadThrows(GetProp(data, "settings"))
            THEN Catch(msg, TypeError)
            ELSE Return(Or(GetProp(GetProp(data, "settings"), "payment"),
                           EmptyObj))

\* updatePaymentSettings reading every column of the row
updatePaymentSettings_call_selectAll(settings) ==
    Await("read", SelectReq("app_settings", "*", TRUE),
          [settings |-> settings], <<>>)

updatePaymentSettings_call(settings) ==
    Await("read", SelectReq("app_settings", "settings", TRUE),
          [settings |-> settings], <<>>)

\* the update request built from the fetched row and the new payment section
updatePaymentSettings_write(currentData, settings) ==
    LET updatedSettings ==
            Obj(ObjectWith(Spread(GetProp(currentData, "settings")),
                           "payment", settings))
    IN UpdateReq("app_settings", Obj([settings |-> updatedSettings]),
                 "id", GetProp(currentData, "id"))

\* updatePaymentSettings without the check of the write's error
updatePaymentSettings_resume_uncheckedWrite(at, loc, resp) ==
    LET msg == "Error updating payment settings:"
        currentData == resp.data
    IN IF at = "read"
       THEN IF Truthy(resp.error) THEN Catch(msg, resp.error)
            ELSE IF ReadThrows(currentData) THEN Catch(msg, TypeError)
                 ELSE Await("write",
                            updatePaymentSettings_write(currentData, loc.settings),
                            [settings |-> loc.settings,
                             currentData |-> currentData],
                            <<>>)
       ELSE Return(Bool(TRUE))

updatePaymentSettings_resume(at, loc, resp) ==
    LET msg == "Error updating payment settings:"
        currentData == resp.data
    IN IF at = "read"
       THEN IF Truthy(resp.error) THEN Catch(msg, resp.error)
            ELSE IF ReadThrows(currentData) THEN Catch(msg, TypeError)
                 ELSE Await("write",
                            updatePaymentSettings_write(currentData, loc.settings),
                            [settings |-> loc.settings,
                             currentData |-> currentData],
                            <<>>)
       ELSE IF Truthy(resp.error) THEN Catch(msg, resp.error)
            ELSE Return(Bool(TRUE))

-----------------------------------------------------------------------------
(* The backend, as the client sees it: the answers it can give to a        *)
(* request, and what the request does to the stored settings row.          *)

\* the errors the backend reports: for a procedure, for a collection query
RpcErrors == {Err("rpc_e1"), Err("rpc_e2")}
QueryErrors == {Err("query_e1")}
ErrorsFor(req) == IF req.kind = "rpc" THEN RpcErrors ELSE QueryErrors

WalletRow == Obj([id |-> Str("w"), balance |-> Num(0)])
RowLists == {Arr([i \in 1..n |-> WalletRow]) : n \in 0..MaxRows}

\* what a remote procedure can return on success
Payloads == {Null, Num(0), Obj([balance |-> Num(5)])} \cup RowLists

\* identifiers of the singleton settings row: a text key or a numeric one
DocIds == {Str("main"), Num(1)}

PaymentVals == {Obj([x |-> Num(1)]), Obj([y |-> Num(2)])}
SettingsVals ==
    {Null} \cup
    {Obj([a |-> Num(n)]) : n \in 1..MaxSectionVal} \cup
    {Obj([a |-> Num(n), payment |-> p]) : n \in 1..MaxSectionVal, p \in PaymentVals}

\* the columns a select returns: only the ones it names
Project(row, cols) ==
    IF cols = "*" THEN Obj(row) ELSE Obj([k \in {cols} |-> row[k]])

\* a numeric key column rejects a filter that is not a number
FilterAccepted(row, req) ==
    row[req.col].t = "num" => req.filter \in {Digits(n) : n \in 0..9}

\* the row after an update restricted to col = filter
Updated(row, req) ==
    IF req.filter = TemplateString(row[req.col])
    THEN [k \in DOMAIN row |->
            IF k \in DOMAIN req.values.v THEN req.values.v[k] ELSE row[k]]
    ELSE row

Failures(req, row) == {[db |-> row, resp |-> Fail(e)] : e \in ErrorsFor(req)}

Backend(req, row) ==
    Failures(req, row) \cup
    CASE req.kind = "rpc" -> {[db |-> row, resp |-> Ok(p)] : p \in Payloads}
      [] req.kind = "select" /\ req.target = "app_settings" ->
            {[db |-> row, resp |-> Ok(Project(row, req.cols))]}
      [] req.kind = "select" /\ req.target # "app_settings" ->
            {[db |-> row, resp |-> Ok(r)] : r \in RowLists \cup {Null}}
      [] req.kind = "update" ->
            IF FilterAccepted(row, req)
            THEN {[db |-> Updated(row, req), resp |-> Ok(Null)]}
            ELSE {}

-----------------------------------------------------------------------------
(* Calls.                                                                  *)

Callers == DOMAIN pc

Pending == [kind |-> "pending"]

\* the request the call is suspended on
PendingReq(c) == trace[c][Len(trace[c])].req

\* a caller invokes the function `name`; it runs up to its first await
Begin(c, name, a, o) ==
    /\ pc[c] = "idle"
    /\ pc' = [pc EXCEPT ![c] = o.at]
    /\ op' = [op EXCEPT ![c] = name]
    /\ args' = [args EXCEPT ![c] = a]
    /\ locals' = [locals EXCEPT ![c] = o.locals]
    /\ trace' = [trace EXCEPT ![c] = <<ReqEv(o.req)>>]
    /\ log' = [log EXCEPT ![c] = o.logs]
    /\ result' = [result EXCEPT ![c] = Pending]
    /\ db' = db

\* the backend answers with b; the call runs on to its next await or its end
Resume(c, b, o) ==
    /\ db' = b.db
    /\ log' = [log EXCEPT ![c] = @ \o o.logs]
    /\ op' = op
    /\ args' = args
    /\ IF o.act = "await"
       THEN /\ pc' = [pc EXCEPT ![c] = o.at]
            /\ locals' = [locals EXCEPT ![c] = o.locals]
            /\ trace' = [trace EXCEPT ![c] = @ \o <<RespEv(b.resp), ReqEv(o.req)>>]
            /\ result' = result
       ELSE /\ pc' = [pc EXCEPT ![c] = "done"]
            /\ locals' = locals
            /\ trace' = [trace EXCEPT ![c] = Append(@, RespEv(b.resp))]
            /\ result' = [result EXCEPT ![c] = [kind |-> o.act, val |-> o.val]]

Suspended(c, name) == op[c] = name /\ pc[c] \notin {"idle", "done"}

getWalletBalance(c) ==
    \/ \E userId \in UserIds :
          Begin(c, "getWalletBalance", <<userId>>,
                getWalletBalance_call(userId))
    \/ /\ Suspended(c, "getWalletBalance")
       /\ \E b \in Backend(PendingReq(c), db) :
             Resume(c, b, getWalletBalance_resume(pc[c], locals[c], b.resp))

getWalletTransactions(c) ==
    \/ \E walletId \in WalletIds, options \in OptionsVals :
          Begin(c, "getWalletTransactions", <<walletId, options>>,
                getWalletTransactions_call(walletId, options))
    \/ /\ Suspended(c, "getWalletTransactions")
       /\ \E b \in Backend(PendingReq(c), db) :
             Resume(c, b, getWalletTransactions_resume(pc[c], locals[c], b.resp))

getVendorWallets(c) ==
    \/ Begin(c, "getVendorWallets", <<>>,
                getVendorWallets_call)
    \/ /\ Suspended(c, "getVendorWallets")
       /\ \E b \in Backend(PendingReq(c), db) :
             Resume(c, b, getVendorWallets_resume(pc[c], locals[c], b.resp))

getDriverWallets(c) ==
    \/ Begin(c, "getDriverWallets", <<>>,
                getDriverWallets_call)
    \/ /\ Suspended(c, "getDriverWallets")
       /\ \E b \in Backend(PendingReq(c), db) :
             Resume(c, b, getDriverWallets_resume(pc[c], locals[c], b.resp))

chargeVendorWallet(c) ==
    \/ \E vendorId \in VendorIds, amount \in Amounts, d \in Descriptions :
          Begin(c, "chargeVendorWallet", <<vendorId, amount, d>>,
                chargeVendorWallet_call(vendorId, amount, d))
    \/ /\ Suspended(c, "chargeVendorWallet")
       /\ \E b \in Backend(PendingReq(c), db) :
             Resume(c, b, chargeVendorWallet_resume(pc[c], locals[c], b.resp))

chargeDriverWallet(c) ==
    \/ \E driverId \in DriverIds, amount \in Amounts, d \in Descriptions :
          Begin(c, "chargeDriverWallet", <<driverId, amount, d>>,
                chargeDriverWallet_call(driverId, amount, d))
    \/ /\ Suspended(c, "chargeDriverWallet")
       /\ \E b \in Backend(PendingReq(c), db) :
             Resume(c, b, chargeDriverWallet_resume(pc[c], locals[c], b.resp))

getFinancialStats(c) ==
    \/ Begin(c, "getFinancialStats", <<>>,
                getFinancialStats_call)
    \/ /\ Suspended(c, "getFinancialStats")
       /\ \E b \in Backend(PendingReq(c), db) :
             Resume(c, b, getFinancialStats_resume(pc[c], locals[c], b.resp))

getPaymentSettings(c) ==
    \/ Begin(c, "getPaymentSettings", <<>>,
                getPaymentSettings_call)
    \/ /\ Suspended(c, "getPaymentSettings")
       /\ \E b \in Backend(PendingReq(c), db) :
             Resume(c, b, getPaymentSettings_resume(pc[c], locals[c], b.resp))

updatePaymentSettings(c) ==
    \/ \E settings \in PaymentVals :
          Begin(c, "updatePaymentSettings", <<settings>>,
                updatePaymentSettings_call(settings))
    \/ /\ Suspended(c, "updatePaymentSettings")
       /\ \E b \in Backend(PendingReq(c), db) :
             Resume(c, b, updatePaymentSettings_resume(pc[c], locals[c], b.resp))

getVendorWallet(c) ==
    \/ \E vendorId \in VendorIds :
          Begin(c, "getVendorWallet", <<vendorId>>,
                getVendorWallet_call(vendorId))
    \/ /\ Suspended(c, "getVendorWallet")
       /\ \E b \in Backend(PendingReq(c), db) :
             Resume(c, b, getVendorWallet_resume(pc[c], locals[c], b.resp))

getDriverWallet(c) ==
    \/ \E driverId \in DriverIds :
          Begin(c, "getDriverWallet", <<driverId>>,
                getDriverWallet_call(driverId))
    \/ /\ Suspended(c, "getDriverWallet")
       /\ \E b \in Backend(PendingReq(c), db) :
             Resume(c, b, getDriverWallet_resume(pc[c], locals[c], b.resp))

\* the caller has taken the call's outcome and may call again
Finish(c) ==
    /\ pc[c] = "done"
    /\ pc' = [pc EXCEPT ![c] = "idle"]
    /\ op' = [op EXCEPT ![c] = ""]
    /\ args' = [args EXCEPT ![c] = <<>>]
    /\ locals' = [locals EXCEPT ![c] = NoLocals]
    /\ trace' = [trace EXCEPT ![c] = <<>>]
    /\ log' = [log EXCEPT ![c] = <<>>]
    /\ result' = [result EXCEPT ![c] = Pending]
    /\ db' = db

\* another writer of the settings row (not this module) changes section "a"
OtherWriter ==
    /\ db.settings.t = "obj"
    /\ \E n \in 1..MaxSectionVal :
          /\ GetProp(db.settings, "a") # Num(n)
          /\ db' = [db EXCEPT !.settings = Obj(ObjectWith(db.settings.v, "a", Num(n)))]
    /\ UNCHANGED <<pc, op, args, locals, trace, log, result>>

-----------------------------------------------------------------------------
(* Specifications.                                                         *)

InitCalls(cs) ==
    /\ pc = [c \in cs |-> "idle"]
    /\ op = [c \in cs |-> ""]
    /\ args = [c \in cs |-> <<>>]
    /\ locals = [c \in cs |-> NoLocals]
    /\ trace = [c \in cs |-> <<>>]
    /\ log = [c \in cs |-> <<>>]
    /\ result = [c \in cs |-> Pending]

InitDb == db \in [id : DocIds, settings : SettingsVals]

\* one caller, calling any function of the module, one call at a time;
\* nothing else writes the settings row
Init == InitCalls({1}) /\ InitDb

Next ==
    \E c \in {1} :
        \/ getWalletBalance(c)
        \/ getWalletTransactions(c)
        \/ getVendorWallets(c)
        \/ getDriverWallets(c)
        \/ chargeVendorWallet(c)
        \/ chargeDriverWallet(c)
        \/ getFinancialStats(c)
        \/ getPaymentSettings(c)
        \/ updatePaymentSettings(c)
        \/ getVendorWallet(c)
        \/ getDriverWallet(c)
        \/ Finish(c)

Spec == Init /\ [][Next]_vars

\* several callers of the settings functions, and another writer of the row
InitConcurrent == InitCalls(1..NumCallers) /\ InitDb

NextConcurrent ==
    \/ \E c \in 1..NumCallers :
          \/ getPaymentSettings(c)
          \/ updatePaymentSettings(c)
          \/ Finish(c)
    \/ OtherWriter

SpecConcurrent == InitConcurrent /\ [][NextConcurrent]_vars

-----------------------------------------------------------------------------
(* Vocabulary of the properties.                                           *)

NoFallbackOps ==
    {"getWalletBalance", "getWalletTransactions", "chargeVendorWallet",
     "chargeDriverWallet", "getFinancialStats", "getVendorWallet",
     "getDriverWallet"}
FallbackOps == {"getVendorWallets", "getDriverWallets"}
ProcedureOps == NoFallbackOps \cup FallbackOps

Returned(c, v) == pc[c] = "done" /\ result[c] = [kind |-> "return", val |-> v]
Threw(c, e) == pc[c] = "done" /\ result[c] = [kind |-> "throw", val |-> e]

\* the requests the call has issued, and the responses it has received
ReqIdx(c) == {i \in 1..Len(trace[c]) : trace[c][i].ev = "req"}
RespIdx(c) == {i \in 1..Len(trace[c]) : trace[c][i].ev = "resp"}
NumRequests(c) == Cardinality(ReqIdx(c))

\* the call has its first response / its second response
Answered(c) == Len(trace[c]) >= 2
AnsweredTwice(c) == Len(trace[c]) >= 4
FirstReq(c) == trace[c][1].req
FirstResp(c) == trace[c][2].resp
SecondReq(c) == trace[c][3].req
SecondResp(c) == trace[c][4].resp

IsError(r) == r.error # Null

\* the sections of a settings value (none when it is null)
SectionsOf(v) == IF v.t = "obj" THEN DOMAIN v.v ELSE {}

-----------------------------------------------------------------------------
(* C1: when updatePaymentSettings(s) runs alone and its read and write     *)
(* both succeed, the persisted settings equal the fetched settings except  *)
(* that section "payment" is exactly s: the other sections keep their      *)
(* fetched values and nothing of the old payment section survives.         *)
C1_PersistedIsFetchedWithPayment ==
    \A c \in Callers :
        (/\ op[c] = "updatePaymentSettings" /\ Returned(c, Bool(TRUE))
         /\ GetProp(FirstResp(c).data, "settings").t = "obj") =>
            LET fetched == GetProp(FirstResp(c).data, "settings")
                s == args[c][1]
            IN /\ SectionsOf(db.settings) = SectionsOf(fetched) \cup {"payment"}
               /\ db.settings.v["payment"] = s
               /\ \A k \in SectionsOf(fetched) \ {"payment"} :
                     db.settings.v[k] = fetched.v[k]

(* C2: the update request of updatePaymentSettings is filtered on the      *)
(* identifier of the stored settings row that the read fetched.            *)
C2_WriteTargetsStoredId ==
    \A c \in Callers :
        \A i \in ReqIdx(c) :
            trace[c][i].req.kind = "update" =>
                /\ trace[c][i].req.col = "id"
                /\ trace[c][i].req.filter = TemplateString(db.id)

(* C3: in getVendorWallets and getDriverWallets, after the procedure       *)
(* reported an error: a successful collection query makes the call return  *)
(* exactly its rows, or an empty sequence when it has none (empty or null  *)
(* data); a failed one makes the call fail with that second error.         *)
FallbackCollection(name) ==
    IF name = "getVendorWallets" THEN "vendor_wallets" ELSE "driver_wallets"

C3_FallbackResult ==
    \A c \in Callers :
        (op[c] \in FallbackOps /\ pc[c] = "done" /\ IsError(FirstResp(c))) =>
            /\ AnsweredTwice(c)
            /\ SecondReq(c) = SelectReq(FallbackCollection(op[c]), "*", FALSE)
            /\ IF IsError(SecondResp(c))
               THEN result[c] = [kind |-> "throw", val |-> SecondResp(c).error]
               ELSE /\ result[c].kind = "return"
                    /\ result[c].val.t = "arr"
                    /\ IF SecondResp(c).data = Null
                       THEN result[c].val = Arr(<<>>)
                       ELSE result[c].val = SecondResp(c).data

\* the procedure failed, the collection had no data, the call returned []
C3_Witness ==
    \E c \in Callers :
        /\ op[c] = "getDriverWallets" /\ pc[c] = "done"
        /\ IsError(FirstResp(c))
        /\ SecondResp(c) = Ok(Null)
        /\ Returned(c, Arr(<<>>))

(* C4 as stated: every operation that invokes a remote procedure returns   *)
(* the payload of a successful procedure unchanged, null and the empty     *)
(* payload included.                                                       *)
C4_PayloadUnchanged ==
    \A c \in Callers :
        (op[c] \in ProcedureOps /\ pc[c] = "done" /\ ~IsError(FirstResp(c))) =>
            Returned(c, FirstResp(c).data)

(* C4 amended: the seven operations without a fallback return every        *)
(* successful payload unchanged; getVendorWallets and getDriverWallets     *)
(* return a truthy payload (any array, the empty one too) unchanged and an *)
(* empty sequence in place of a falsy one (null, 0).                       *)
C4_PayloadUnchangedUnlessFalsyList ==
    \A c \in Callers :
        (op[c] \in ProcedureOps /\ pc[c] = "done" /\ ~IsError(FirstResp(c))) =>
            IF op[c] \in FallbackOps /\ ~Truthy(FirstResp(c).data)
            THEN Returned(c, Arr(<<>>))
            ELSE Returned(c, FirstResp(c).data)

\* a procedure without fallback answered null and the call returned null
C4_Witness ==
    \E c \in Callers :
        /\ op[c] = "getFinancialStats"
        /\ Answered(c) /\ FirstResp(c) = Ok(Null)
        /\ Returned(c, Null)

(* C5: when the backend reports an error to an operation without fallback, *)
(* the operation has issued exactly one remote call, has written one log   *)
(* entry that names the operation and carries the cause, and fails with    *)
(* that same error, returning no payload.                                  *)
LogMessageOf(name) ==
    CASE name = "getWalletBalance" -> "Error fetching wallet balance:"
      [] name = "getWalletTransactions" -> "Error fetching wallet transactions:"
      [] name = "chargeVendorWallet" -> "Error charging vendor wallet:"
      [] name = "chargeDriverWallet" -> "Error charging driver wallet:"
      [] name = "getFinancialStats" -> "Error fetching financial stats:"
      [] name = "getVendorWallet" -> "Error fetching vendor wallet:"
      [] name = "getDriverWallet" -> "Error fetching driver wallet:"

C5_SingleCallLoggedAndRethrown ==
    \A c \in Callers :
        (op[c] \in NoFallbackOps /\ Answered(c) /\ IsError(FirstResp(c))) =>
            /\ NumRequests(c) = 1
            /\ log[c] = <<LogEntry(LogMessageOf(op[c]), FirstResp(c).error)>>
            /\ Threw(c, FirstResp(c).error)

C5_Witness ==
    \E c \in Callers :
        /\ op[c] = "chargeVendorWallet"
        /\ Answered(c) /\ IsError(FirstResp(c))
        /\ Threw(c, FirstResp(c).error)

(* C6: getWalletTransactions(walletId, options) sends one request whose    *)
(* limit is options.limit when supplied (0 included) and 10 only when      *)
(* absent, whose offset is options.offset when supplied and 0 only when    *)
(* absent, and whose type and status are the supplied filters, or none.    *)
Supplied(options, k, absent) ==
    IF options.t = "obj" /\ k \in DOMAIN options.v THEN options.v[k] ELSE absent

C6_TransactionsRequest ==
    \A c \in Callers :
        (op[c] = "getWalletTransactions" /\ pc[c] # "idle") =>
            LET walletId == args[c][1]
                options == args[c][2]
            IN /\ NumRequests(c) = 1
               /\ FirstReq(c).kind = "rpc"
               /\ FirstReq(c).target = "get_wallet_transactions"
               /\ FirstReq(c).params =
                     Obj([p_wallet_id |-> walletId,
                          p_limit |-> Supplied(options, "limit", Num(10)),
                          p_offset |-> Supplied(options, "offset", Num(0)),
                          p_type |-> Supplied(options, "type", Null),
                          p_status |-> Supplied(options, "status", Null)])

(* C7: every failure an operation surfaces is the error the backend        *)
(* reported for one of its remote calls; no operation fails when all its   *)
(* remote calls succeeded, and getPaymentSettings returns an empty object  *)
(* when the fetched settings are null or have no payment section.          *)
C7_OnlyBackendErrorsSurface ==
    \A c \in Callers :
        /\ result[c].kind = "throw" =>
              \E i \in RespIdx(c) :
                  /\ IsError(trace[c][i].resp)
                  /\ trace[c][i].resp.error = result[c].val
        /\ (/\ op[c] = "getPaymentSettings" /\ pc[c] = "done"
            /\ ~IsError(FirstResp(c))
            /\ "payment" \notin SectionsOf(GetProp(FirstResp(c).data, "settings")))
              => Returned(c, EmptyObj)

(* C8: in getVendorWallets and getDriverWallets the collection query is    *)
(* issued only after the procedure's error response has been received,     *)
(* never when the procedure succeeded, and at most once; the call makes at *)
(* most two remote calls.                                                  *)
C8_FallbackOnlyAfterFailure ==
    \A c \in Callers :
        op[c] \in FallbackOps =>
            LET selects == {i \in ReqIdx(c) : trace[c][i].req.kind = "select"}
            IN /\ NumRequests(c) <= 2
               /\ Cardinality(selects) <= 1
               /\ FirstReq(c).kind = "rpc"
               /\ \A i \in selects :
                     /\ i = 3
                     /\ trace[c][2].ev = "resp"
                     /\ IsError(trace[c][2].resp)
               /\ (Answered(c) /\ ~IsError(FirstResp(c))) => selects = {}

\* the procedure has failed and the collection query is in flight
C8_Witness ==
    \E c \in Callers :
        /\ op[c] = "getVendorWallets" /\ pc[c] = "fallback"
        /\ IsError(FirstResp(c))
        /\ trace[c][3] = ReqEv(SelectReq("vendor_wallets", "*", FALSE))

(* C9: whatever other writers of the settings row do between the read and  *)
(* the write of an updatePaymentSettings call, the step in which the       *)
(* call's write is answered changes no section other than "payment": each  *)
(* other section holds right after it the value it held right before.      *)
WriteAnswered(c) ==
    /\ op[c] = "updatePaymentSettings"
    /\ pc[c] = "write"
    /\ pc'[c] = "done"

OtherSectionsKept ==
    /\ SectionsOf(db'.settings) \ {"payment"} = SectionsOf(db.settings) \ {"payment"}
    /\ \A k \in SectionsOf(db.settings) \ {"payment"} :
          db'.settings.v[k] = db.settings.v[k]

UpdateOutcome(c) ==
    op[c] = "updatePaymentSettings" =>
        /\ Returned(c, Bool(TRUE)) =>
              /\ AnsweredTwice(c)
              /\ ~IsError(FirstResp(c)) /\ ~IsError(SecondResp(c))
              /\ SecondReq(c).kind = "update"
        /\ (Answered(c) /\ IsError(FirstResp(c))) =>
              /\ NumRequests(c) = 1
              /\ Threw(c, FirstResp(c).error)
        /\ (AnsweredTwice(c) /\ IsError(SecondResp(c))) =>
              Threw(c, SecondResp(c).error)

ReadFailed(c) ==
    /\ op[c] = "updatePaymentSettings"
    /\ pc[c] = "read"
    /\ pc'[c] # "read"
    /\ IsError(trace'[c][2].resp)

C10_TrueOnlyAfterReadAndWrite ==
    [][\A c \in Callers :
          /\ UpdateOutcome(c)'
          /\ ReadFailed(c) => db' = db]_vars

\* a call whose write was refused, and which failed with that error
C10_Witness ==
    \E c \in Callers :
        /\ op[c] = "updatePaymentSettings"
        /\ AnsweredTwice(c) /\ IsError(SecondResp(c))
        /\ Threw(c, SecondResp(c).error)

=============================================================================
